---- MODULE Spec2Model ----
(***************************************************************************)
(* Model of the document ingestion / retrieval core of legal-assistant:    *)
(*   src/documents/processor.py  (DocumentProcessor)                       *)
(*   src/documents/utils.py      (rebuild_collection, validate_metadata_file) *)
(*   src/agents/legal_knowledge_agent/tools.py (retrieve_data)             *)
(*                                                                         *)
(* Strings that are paths are sequences of path components; a component is *)
(* a record [stem, suffix] so that Path.name and Path.suffix are computed. *)
(* Texts are sequences of characters.  A parsed YAML mapping is a record   *)
(* with the set of keys that are present (keys) and the set of present     *)
(* keys whose value is null (nulls).  Distances are in tenths.             *)
(***************************************************************************)
EXTENDS Integers, Sequences, FiniteSets, TLC

VARIABLES
    fs,      \* the documents root: entry name -> [isdir, desc, files, nested]
    store,   \* the ChromaDB client state: collection name -> [metadata, records]
    last,    \* the last operation, its arguments and what it returned
    edits    \* number of changes made to the file system so far

vars == <<fs, store, last, edits>>

-----------------------------------------------------------------------------
(* Bounds *)

MaxEdits == 1
MaxDocs == 2

-----------------------------------------------------------------------------
(* Small helpers *)

Range(s) == {s[i] : i \in DOMAIN s}

EmptyMap == [k \in {} |-> 0]

\* Python {**lo, **hi}: keys of hi win
DictMerge(lo, hi) ==
    [k \in (DOMAIN lo) \cup (DOMAIN hi) |-> IF k \in DOMAIN hi THEN hi[k] ELSE lo[k]]

\* a path component / file name
F(stem, suffix) == [stem |-> stem, suffix |-> suffix]

\* pathlib: Path(p).name as a string (a path of one component)
PathName(p) == IF p = <<>> THEN <<>> ELSE <<p[Len(p)]>>

\* pathlib: Path(p).suffix.lower()
Lower(s) == IF s = ".PDF" THEN ".pdf" ELSE s
PathSuffixLower(p) == IF p = <<>> THEN "" ELSE Lower(p[Len(p)].suffix)

\* pathlib: a / b
PathJoin(a, b) == a \o b

RECURSIVE Flatten(_)
Flatten(ss) == IF ss = <<>> THEN <<>> ELSE Head(ss) \o Flatten(Tail(ss))

-----------------------------------------------------------------------------
(* The documents root *)

documents_root == <<F("documents", "")>>

IGNORED_FOLDERS ==
    {"__pycache__", ".git", ".vscode", ".idea", "node_modules", ".pytest_cache",
     ".mypy_cache", "venv", "env", ".env", "dist", "build", "egg-info",
     ".DS_Store", "Thumbs.db"}

\* str.startswith('.') on the names used in the model
HiddenNames == {".hid", ".git", ".vscode", ".idea", ".pytest_cache", ".mypy_cache",
                ".env", ".DS_Store"}
StartsWithDot(name) == name \in HiddenNames

-----------------------------------------------------------------------------
(* Folder descriptors (metadata.yaml) and folder contents *)

\* a document entry of the descriptor: {file: ..., metadata: {...}}
DocEntry(file, metadata) ==
    [keys |-> {"file", "metadata"}, file |-> file, metadata |-> metadata]

\* a descriptor whose YAML document is a mapping
MapDesc(keys, cn, size, overlap, docs) ==
    [kind |-> "map", keys |-> keys, nulls |-> {}, collection_name |-> cn,
     description |-> "about " \o cn, chunk_size |-> size, chunk_overlap |-> overlap,
     documents |-> docs]

\* no metadata.yaml / a file yaml.safe_load rejects / an empty YAML document (None)
OtherDesc(kind) ==
    [kind |-> kind, keys |-> {}, nulls |-> {}, collection_name |-> "",
     description |-> "", chunk_size |-> 0, chunk_overlap |-> 0, documents |-> <<>>]

AbsentDesc == OtherDesc("absent")
UnparsableDesc == OtherDesc("unparsable")
NoneDesc == OtherDesc("none")

AllKeys == {"collection_name", "description", "chunk_size", "chunk_overlap", "documents"}

a_pdf == <<F("a", ".pdf")>>
b_pdf == <<F("b", ".pdf")>>
c_txt == <<F("c", ".txt")>>

\* file contents: a PDF with page texts, or bytes PyPDFLoader cannot read
Pdf(pages) == [kind |-> "pdf", pages |-> pages]
Corrupt == [kind |-> "corrupt", pages |-> <<>>]

TextV1 == <<"a", "b", "c">>
TextV2 == <<"d", "e">>
TextB == <<"x">>

NoFiles == [p \in {} |-> Corrupt]

NoSubdirs == [n \in {} |-> 0]

Folder(desc, files) == [isdir |-> TRUE, desc |-> desc, files |-> files, subdirs |-> NoSubdirs]
RootFile == [isdir |-> FALSE, desc |-> AbsentDesc, files |-> NoFiles, subdirs |-> NoSubdirs]

DeclaredA == [author |-> "ann"]
DeclaredB == [author |-> "bob", collection |-> "Z"]

\* a descriptor naming collection cn with one declared document a.pdf
Desc1(cn) == MapDesc(AllKeys, cn, 2, 0, <<DocEntry(a_pdf, DeclaredA)>>)
\* a descriptor naming collection cn with documents a.pdf and b.pdf
Desc2(cn) == MapDesc(AllKeys, cn, 2, 0,
                     <<DocEntry(a_pdf, DeclaredA), DocEntry(b_pdf, DeclaredB)>>)
\* a descriptor without collection_name
DescNoName == MapDesc(AllKeys \ {"collection_name"}, "", 2, 0, <<DocEntry(a_pdf, DeclaredA)>>)

FilesV1 == [p \in {a_pdf} |-> Pdf(<<TextV1>>)]
FilesV2 == [p \in {a_pdf} |-> Pdf(<<TextV2>>)]
FilesCorrupt == [p \in {a_pdf} |-> Corrupt]
FilesBlank == [p \in {a_pdf} |-> Pdf(<<<<>>>>)]
FilesAB == [p \in {a_pdf, b_pdf} |-> IF p = a_pdf THEN Pdf(<<TextV1>>) ELSE Pdf(<<TextB>>)]

-----------------------------------------------------------------------------
(* DocumentProcessor: loading, extraction, chunking *)

\* dict.get(key, default) on the parsed descriptor
DescGet(data, key, default) == IF key \in data.keys THEN data[key] ELSE default

\* a try block in which only the YAML parser can raise
LoadRaisesParseOnly(data) == data.kind = "unparsable"

\* the statements of _load_metadata's try block raise for this descriptor
LoadRaises(data) ==
    \/ data.kind = "unparsable"                         \* yaml.safe_load raises
    \/ data.kind = "none"                               \* None.get
    \/ /\ data.kind = "map"
       /\ \/ "documents" \in data.nulls                 \* for ... in None
          \/ \E i \in DOMAIN DescGet(data, "documents", <<>>) :
                "file" \notin DescGet(data, "documents", <<>>)[i].keys  \* doc_data['file']
          \/ "collection_name" \notin data.keys         \* data['collection_name']

NoConfig ==
    [ok |-> FALSE, collection_name |-> "", description |-> "", chunk_size |-> 0,
     chunk_overlap |-> 0, documents |-> <<>>]

\* DocumentProcessor._load_metadata: the CollectionConfig, or NoConfig for None
load_metadata(folder) ==
    LET data == folder.desc
        docs == DescGet(data, "documents", <<>>)
    IN  IF data.kind = "absent" THEN NoConfig
        ELSE IF LoadRaises(data) THEN NoConfig
        ELSE [ok |-> TRUE,
              collection_name |-> data.collection_name,
              description |-> DescGet(data, "description", ""),
              chunk_size |-> DescGet(data, "chunk_size", 1000),
              chunk_overlap |-> DescGet(data, "chunk_overlap", 200),
              documents |-> [i \in DOMAIN docs |->
                                [file |-> docs[i].file,
                                 metadata |-> IF "metadata" \in docs[i].keys
                                              THEN docs[i].metadata ELSE EmptyMap]]]

\* DocumentProcessor._extract_text_from_pdf: one Document per page, [] on any error
extract_text_from_pdf(files, pdf_path, rel) ==
    IF files[rel].kind # "pdf" THEN <<>>
    ELSE [i \in DOMAIN files[rel].pages |->
             [page_content |-> files[rel].pages[i],
              metadata |-> [source |-> pdf_path, page |-> i - 1]]]

\* RecursiveCharacterTextSplitter._merge_splits, the pops after a chunk is emitted
RECURSIVE PopFront(_, _, _)
PopFront(cur, size, overlap) ==
    IF Len(cur) > overlap \/ (Len(cur) + 1 > size /\ Len(cur) > 0)
    THEN PopFront(Tail(cur), size, overlap)
    ELSE cur

\* RecursiveCharacterTextSplitter._merge_splits on the characters of a text
\* that holds none of the separators "\n\n", "\n", " "
RECURSIVE MergeSplits(_, _, _, _, _)
MergeSplits(splits, cur, docs, size, overlap) ==
    IF splits = <<>>
    THEN IF cur = <<>> THEN docs ELSE Append(docs, cur)
    ELSE IF Len(cur) + 1 > size /\ cur # <<>>
         THEN MergeSplits(Tail(splits), Append(PopFront(cur, size, overlap), Head(splits)),
                          Append(docs, cur), size, overlap)
         ELSE MergeSplits(Tail(splits), Append(cur, Head(splits)), docs, size, overlap)

\* RecursiveCharacterTextSplitter.split_text
split_text(text, size, overlap) ==
    IF size <= 1 THEN [i \in DOMAIN text |-> <<text[i]>>]
    ELSE MergeSplits(text, <<>>, <<>>, size, overlap)

\* DocumentProcessor._split_documents: every chunk keeps its page's metadata
split_documents(documents, config) ==
    Flatten([d \in DOMAIN documents |->
                LET parts == split_text(documents[d].page_content,
                                        config.chunk_size, config.chunk_overlap)
                IN  [j \in DOMAIN parts |->
                        [page_content |-> parts[j], metadata |-> documents[d].metadata]]])

-----------------------------------------------------------------------------
(* DocumentProcessor: the collection manager *)

\* outcomes of the external collaborators during one process_folder call:
\* all calls succeed / create_collection raises / collection.add raises
\* before anything is written (the embedding call fails)
ExtOutcomes == {"ok", "create_fails", "add_fails"}
WriteOutcomes == {"ok", "add_fails"}

NoRecords == [id \in {} |-> 0]
EmptyStore == [c \in {} |-> 0]

\* result of an operator that may raise
Result(raised, ret, st) == [raised |-> raised, ret |-> ret, store |-> st]

\* a manager that creates the collection anew on every call
create_or_get_collection_recreate(st, config, ext) ==
    IF ext = "create_fails"
    THEN Result(TRUE, FALSE, st)
    ELSE Result(FALSE, TRUE,
                [c \in (DOMAIN st) \cup {config.collection_name} |->
                    IF c = config.collection_name
                    THEN [metadata |-> [description |-> config.description],
                          records |-> NoRecords]
                    ELSE st[c]])

\* DocumentProcessor._create_or_get_collection
create_or_get_collection(st, config, ext) ==
    IF config.collection_name \in DOMAIN st
    THEN Result(FALSE, TRUE, st)
    ELSE IF ext = "create_fails"
         THEN Result(TRUE, FALSE, st)
         ELSE Result(FALSE, TRUE,
                     [c \in (DOMAIN st) \cup {config.collection_name} |->
                         IF c = config.collection_name
                         THEN [metadata |-> [description |-> config.description],
                               records |-> NoRecords]
                         ELSE st[c]])

\* the source file name the write derives from a chunk
SourceFile(chunk) ==
    PathName(IF "source" \in DOMAIN chunk.metadata THEN chunk.metadata.source ELSE <<>>)

\* the declared metadata of the first document entry whose file equals the name
DocMetadata(config, source_file) ==
    LET hits == {k \in DOMAIN config.documents : config.documents[k].file = source_file}
    IN  IF hits = {} THEN EmptyMap
        ELSE config.documents[CHOOSE k \in hits : \A h \in hits : k <= h].metadata

\* the metadata dict literal of _add_documents_to_collection, i counted from 0
ChunkMetadata(chunk, i, config, folder_path) ==
    DictMerge(DictMerge([source |-> SourceFile(chunk),
                         chunk_index |-> i,
                         collection |-> config.collection_name,
                         folder_path |-> folder_path],
                        DocMetadata(config, SourceFile(chunk))),
              chunk.metadata)

\* an id numbered by the page the chunk comes from
ChunkIdByPage(chunk, i, config) ==
    <<config.collection_name, SourceFile(chunk), chunk.metadata.page>>

\* f"{config.collection_name}_{source_file}_{i}"; within one collection the
\* formatted string determines (source_file, i), so the triple stands for it
ChunkId(chunk, i, config) == <<config.collection_name, SourceFile(chunk), i>>

\* the ids / records one call of _add_documents_to_collection hands to collection.add
BatchIds(chunks, config) == {ChunkId(chunks[k], k - 1, config) : k \in DOMAIN chunks}

BatchRecord(chunks, config, folder_path, id) ==
    LET k == CHOOSE j \in DOMAIN chunks : ChunkId(chunks[j], j - 1, config) = id
    IN  [document |-> chunks[k].page_content,
         metadata |-> ChunkMetadata(chunks[k], k - 1, config, folder_path)]

\* a write that numbers its ids after the records already stored
collection_add_fresh_ids(records, chunks, config, folder_path) ==
    LET shift == Cardinality(DOMAIN records)
    IN  [id \in (DOMAIN records) \cup
                {<<b[1], b[2], b[3] + shift>> : b \in BatchIds(chunks, config)} |->
            IF id \in DOMAIN records THEN records[id]
            ELSE BatchRecord(chunks, config, folder_path, <<id[1], id[2], id[3] - shift>>)]

\* chromadb Collection.add: an id already in the collection is left as it is
\* (the insert is skipped); an empty batch is rejected with ValueError
collection_add(records, chunks, config, folder_path) ==
    [id \in (DOMAIN records) \cup BatchIds(chunks, config) |->
        IF id \in DOMAIN records THEN records[id]
        ELSE BatchRecord(chunks, config, folder_path, id)]

\* a write that empties the collection before it adds the batch
add_documents_replacing(st, chunks, config, folder_path, ext) ==
    IF chunks = <<>> \/ ext = "add_fails"
    THEN Result(TRUE, FALSE, st)
    ELSE Result(FALSE, TRUE,
                [st EXCEPT ![config.collection_name].records =
                    collection_add(NoRecords, chunks, config, folder_path)])

\* DocumentProcessor._add_documents_to_collection
add_documents_to_collection(st, chunks, config, folder_path, ext) ==
    IF chunks = <<>> \/ ext = "add_fails"
    THEN Result(TRUE, FALSE, st)
    ELSE Result(FALSE, TRUE,
                [st EXCEPT ![config.collection_name].records =
                    collection_add(@, chunks, config, folder_path)])

\* the Documents process_folder gathers from the declared files, in descriptor order
ExtractAll(folder, folder_path, config) ==
    Flatten([k \in DOMAIN config.documents |->
                IF config.documents[k].file \in DOMAIN folder.files
                THEN extract_text_from_pdf(folder.files,
                                           PathJoin(folder_path, config.documents[k].file),
                                           config.documents[k].file)
                ELSE <<>>])

\* the constructor of RecursiveCharacterTextSplitter rejects a chunk_overlap
\* larger than chunk_size with ValueError
SplitterRaises(config) == config.chunk_overlap > config.chunk_size

\* a run that hands whatever was extracted to the chunker and the store
process_folder_unchecked(st, folder, folder_path, ext) ==
    LET config == load_metadata(folder)
        got == create_or_get_collection(st, config, ext)
        all_documents == ExtractAll(folder, folder_path, config)
        chunks == split_documents(all_documents, config)
    IN  IF ~config.ok THEN Result(FALSE, FALSE, st)
        ELSE IF got.raised THEN Result(TRUE, FALSE, st)
        ELSE IF SplitterRaises(config) THEN Result(TRUE, FALSE, got.store)
        ELSE add_documents_to_collection(got.store, chunks, config, folder_path, ext)

\* a run that empties the collection of its descriptor before it writes
process_folder_replacing(st, folder, folder_path, ext) ==
    LET config == load_metadata(folder)
        got == create_or_get_collection(st, config, ext)
        all_documents == ExtractAll(folder, folder_path, config)
        chunks == split_documents(all_documents, config)
    IN  IF ~config.ok THEN Result(FALSE, FALSE, st)
        ELSE IF got.raised THEN Result(TRUE, FALSE, st)
        ELSE IF all_documents = <<>> THEN Result(FALSE, FALSE, got.store)
        ELSE IF SplitterRaises(config) THEN Result(TRUE, FALSE, got.store)
        ELSE add_documents_to_collection(
                [got.store EXCEPT ![config.collection_name].records = NoRecords],
                chunks, config, folder_path, ext)

\* DocumentProcessor.process_folder
process_folder(st, folder, folder_path, ext) ==
    LET config == load_metadata(folder)
        got == create_or_get_collection(st, config, ext)
        all_documents == ExtractAll(folder, folder_path, config)
        chunks == split_documents(all_documents, config)
    IN  IF ~config.ok THEN Result(FALSE, FALSE, st)
        ELSE IF got.raised THEN Result(TRUE, FALSE, st)
        ELSE IF all_documents = <<>> THEN Result(FALSE, FALSE, got.store)
        ELSE IF SplitterRaises(config) THEN Result(TRUE, FALSE, got.store)
        ELSE add_documents_to_collection(got.store, chunks, config, folder_path, ext)

\* documents_root / name
FolderPath(name) == PathJoin(documents_root, <<F(name, "")>>)

\* DocumentProcessor.delete_collection: chromadb raises for an unknown name
delete_collection(st, name) ==
    IF name \in DOMAIN st
    THEN Result(FALSE, TRUE, [c \in (DOMAIN st) \ {name} |-> st[c]])
    ELSE Result(FALSE, FALSE, st)

-----------------------------------------------------------------------------
(* Orchestration: process_all_folders and rebuild_collection *)

\* Path.iterdir() yields the entries of the root in an arbitrary order
IterOrders(fsys) ==
    {o \in [1..Cardinality(DOMAIN fsys) -> DOMAIN fsys] : Range(o) = DOMAIN fsys}

\* the entries of the root process_all_folders hands to process_folder
Eligible(fsys) ==
    {n \in DOMAIN fsys : fsys[n].isdir /\ n \notin IGNORED_FOLDERS /\ ~StartsWithDot(n)}

\* a loop that lets an exception of process_folder end the walk
RECURSIVE ProcessAllLoopAbort(_, _, _, _, _)
ProcessAllLoopAbort(order, fsys, exts, st, results) ==
    IF order = <<>> THEN [results |-> results, store |-> st]
    ELSE LET n == Head(order)
             r == process_folder(st, fsys[n], FolderPath(n), exts[n])
         IN  IF ~fsys[n].isdir \/ n \in IGNORED_FOLDERS \/ StartsWithDot(n)
             THEN ProcessAllLoopAbort(Tail(order), fsys, exts, st, results)
             ELSE IF r.raised THEN [results |-> results, store |-> r.store]
             ELSE ProcessAllLoopAbort(Tail(order), fsys, exts, r.store,
                                      [k \in (DOMAIN results) \cup {n} |->
                                          IF k = n THEN r.ret ELSE results[k]])

\* a loop that skips the ignored names but not the hidden ones
RECURSIVE ProcessAllLoopHidden(_, _, _, _, _)
ProcessAllLoopHidden(order, fsys, exts, st, results) ==
    IF order = <<>> THEN [results |-> results, store |-> st]
    ELSE LET n == Head(order)
             r == process_folder(st, fsys[n], FolderPath(n),
                                 IF n \in DOMAIN exts THEN exts[n] ELSE "ok")
         IN  IF ~fsys[n].isdir \/ n \in IGNORED_FOLDERS
             THEN ProcessAllLoopHidden(Tail(order), fsys, exts, st, results)
             ELSE ProcessAllLoopHidden(Tail(order), fsys, exts, r.store,
                                       [k \in (DOMAIN results) \cup {n} |->
                                           IF k = n THEN (~r.raised /\ r.ret) ELSE results[k]])

\* the loop of DocumentProcessor.process_all_folders over the entries still to
\* visit; an exception of process_folder is caught and recorded as False
RECURSIVE ProcessAllLoop(_, _, _, _, _)
ProcessAllLoop(order, fsys, exts, st, results) ==
    IF order = <<>> THEN [results |-> results, store |-> st]
    ELSE LET n == Head(order)
             r == process_folder(st, fsys[n], FolderPath(n), exts[n])
         IN  IF ~fsys[n].isdir \/ n \in IGNORED_FOLDERS \/ StartsWithDot(n)
             THEN ProcessAllLoop(Tail(order), fsys, exts, st, results)
             ELSE ProcessAllLoop(Tail(order), fsys, exts, r.store,
                                 [k \in (DOMAIN results) \cup {n} |->
                                     IF k = n THEN (~r.raised /\ r.ret) ELSE results[k]])

\* DocumentProcessor.process_all_folders
process_all_folders(order, fsys, exts, st) ==
    ProcessAllLoop(order, fsys, exts, st, EmptyMap)

\* the scan of rebuild_collection for the folder whose descriptor names the
\* collection: every directory of the root with a metadata.yaml is parsed
RECURSIVE FindTargetFolder(_, _, _)
FindTargetFolder(order, fsys, name) ==
    IF order = <<>> THEN [raised |-> FALSE, found |-> FALSE, target |-> ""]
    ELSE LET n == Head(order)
             data == fsys[n].desc
         IN  IF ~fsys[n].isdir \/ data.kind = "absent"
             THEN FindTargetFolder(Tail(order), fsys, name)
             ELSE IF data.kind \in {"unparsable", "none"}
             THEN [raised |-> TRUE, found |-> FALSE, target |-> ""]
             ELSE IF "collection_name" \in data.keys /\ data.collection_name = name
             THEN [raised |-> FALSE, found |-> TRUE, target |-> n]
             ELSE FindTargetFolder(Tail(order), fsys, name)

\* a rebuild that looks for the folder first and deletes only when it found one
rebuild_collection_scan_first(name, order, fsys, ext, st) ==
    LET deleted == IF name \in DOMAIN st THEN delete_collection(st, name).store ELSE st
        scan == FindTargetFolder(order, fsys, name)
    IN  IF scan.raised THEN Result(TRUE, FALSE, st)
        ELSE IF ~scan.found THEN Result(FALSE, FALSE, st)
        ELSE process_folder(deleted, fsys[scan.target], FolderPath(scan.target), ext)

\* documents.utils.rebuild_collection
rebuild_collection(name, order, fsys, ext, st) ==
    LET deleted == IF name \in DOMAIN st THEN delete_collection(st, name).store ELSE st
        scan == FindTargetFolder(order, fsys, name)
    IN  IF scan.raised THEN Result(TRUE, FALSE, deleted)
        ELSE IF ~scan.found THEN Result(FALSE, FALSE, deleted)
        ELSE process_folder(deleted, fsys[scan.target], FolderPath(scan.target), ext)

-----------------------------------------------------------------------------
(* Retrieval: search_documents and retrieve_data *)

\* config.settings.Constants; distances are counted in tenths
RAG_TRESHOLD_DISTANCES == 3
RAG_N_RESULTS == 3
RAG_EXTRACTED_METADATA == FALSE
RAG_EXTRACTED_METADATA_KEYS == {"source", "page_label"}

\* the distances the store can report for a record
Distances == {1, 3, 5}

\* the values of n_results a caller passes
NResults == 0..RAG_N_RESULTS

\* the ways the store can rank the records of a collection for a query:
\* every record once, by ascending distance
Rankings(records) ==
    {r \in [1..Cardinality(DOMAIN records) -> [id : DOMAIN records, distance : Distances]] :
        \A i, j \in DOMAIN r : i < j => (r[i].id # r[j].id /\ r[i].distance <= r[j].distance)}

\* the ranking a query of a collection name can see
RankingsOf(st, name) ==
    Rankings(IF name \in DOMAIN st THEN st[name].records ELSE NoRecords)

\* outcomes of the store and of the embedding model during a read:
\* the call succeeds / the store cannot be reached or the embedding call fails
StoreOutcomes == {"ok", "store_fails"}

\* the statements of search_documents's try block: get_collection raises for
\* a missing collection, query raises for n_results <= 0 or a failing store;
\* otherwise the n_results nearest records are formatted
search_documents_try(st, name, n_results, ranking, ext) ==
    IF name \notin DOMAIN st \/ ext = "store_fails" \/ n_results <= 0
    THEN Result(TRUE, <<>>, st)
    ELSE Result(FALSE,
                [i \in 1..(IF n_results < Len(ranking) THEN n_results ELSE Len(ranking)) |->
                    [document |-> st[name].records[ranking[i].id].document,
                     metadata |-> st[name].records[ranking[i].id].metadata,
                     distance |-> ranking[i].distance]],
                st)

\* a search that lets the exceptions of its store calls escape
search_documents_uncaught(st, name, n_results, ranking, ext) ==
    search_documents_try(st, name, n_results, ranking, ext)

\* a search that opens its collection with get_or_create_collection
search_documents_get_or_create(st, name, n_results, ranking, ext) ==
    LET opened == [c \in (DOMAIN st) \cup {name} |->
                      IF c \in DOMAIN st THEN st[c]
                      ELSE [metadata |-> EmptyMap, records |-> NoRecords]]
        r == search_documents_try(opened, name, n_results, ranking, ext)
    IN  IF r.raised THEN Result(FALSE, <<>>, opened) ELSE r

\* a search that formats the query result from its last entry to its first
search_documents_reversed(st, name, n_results, ranking, ext) ==
    LET r == search_documents_try(st, name, n_results, ranking, ext)
    IN  IF r.raised THEN Result(FALSE, <<>>, r.store)
        ELSE Result(FALSE, [i \in DOMAIN r.ret |-> r.ret[Len(r.ret) + 1 - i]], r.store)

\* DocumentProcessor.search_documents: any exception of the try block is
\* logged and an empty list is returned
search_documents(st, name, n_results, ranking, ext) ==
    LET r == search_documents_try(st, name, n_results, ranking, ext)
    IN  IF r.raised THEN Result(FALSE, <<>>, r.store) ELSE r

\* documents.utils.search_in_collection: a new processor on the same store
search_in_collection(st, name, n_results, ranking, ext) ==
    search_documents(st, name, n_results, ranking, ext)

\* DocumentProcessor.list_collections
list_collections(st) == DOMAIN st

\* get_collection_info returns the empty dict {} when its try block raises
NoInfo == EmptyMap

\* DocumentProcessor.get_collection_info
get_collection_info(st, name, ext) ==
    IF name \notin DOMAIN st \/ ext = "store_fails"
    THEN Result(FALSE, NoInfo, st)
    ELSE Result(FALSE,
                [name |-> name, count |-> Cardinality(DOMAIN st[name].records),
                 metadata |-> st[name].metadata],
                st)

\* an item that carries the whole metadata of the record
OutputForWholeMetadata(extracted_metadata, result) ==
    IF extracted_metadata
    THEN [metadata |-> result.metadata, content |-> result.document]
    ELSE [content |-> result.document]

\* the item retrieve_data appends for a result when
\* constants.RAG_EXTRACTED_METADATA has the given value
OutputFor(extracted_metadata, result) ==
    IF extracted_metadata
    THEN [metadata |-> [k \in (DOMAIN result.metadata) \cap RAG_EXTRACTED_METADATA_KEYS |->
                           result.metadata[k]],
          content |-> result.document]
    ELSE [content |-> result.document]

\* the item retrieve_data appends for a result
Output(result) == OutputFor(RAG_EXTRACTED_METADATA, result)

\* a filter that also keeps the results at the threshold
retrieve_data_at_threshold(results) ==
    LET Keep(result) == result.distance >= RAG_TRESHOLD_DISTANCES
        kept == SelectSeq(results, Keep)
    IN  [i \in DOMAIN kept |-> Output(kept[i])]

\* retrieve_data, on the list search_in_collection returned, when
\* constants.RAG_EXTRACTED_METADATA has the given value
retrieve_data_for(extracted_metadata, results) ==
    LET Keep(result) == result.distance > RAG_TRESHOLD_DISTANCES
        kept == SelectSeq(results, Keep)
    IN  [i \in DOMAIN kept |-> OutputFor(extracted_metadata, kept[i])]

\* retrieve_data under the settings of config/settings.py
retrieve_data(results) == retrieve_data_for(RAG_EXTRACTED_METADATA, results)

-----------------------------------------------------------------------------
(* validate_metadata_file *)

\* validation_results as initialised
NoValidation == [valid |-> TRUE, errors |-> <<>>, warnings |-> <<>>, file_check |-> EmptyMap]

\* an entry of the errors / warnings lists: the message and what it names
Msg(kind, field, file, files) ==
    [kind |-> kind, field |-> field, file |-> file, files |-> files]

MissingField(field) == Msg("Missing required field", field, <<>>, {})
DataWithoutDocuments == Msg("Data without documents", "", <<>>, {})
EntryMissingFile == Msg("Document entry missing 'file' field", "", <<>>, {})
FileNotFound(file) == Msg("File not found", "", file, {})
NotAPdf(file) == Msg("File is not a PDF", "", file, {})
OrphanedPdfs(files) == Msg("PDF files not in metadata", "", <<>>, files)
ErrorReading == Msg("Error reading metadata file", "", <<>>, {})

AddError(res, msg) == [res EXCEPT !.errors = Append(@, msg), !.valid = FALSE]
\* a warning that also clears valid
AddWarningInvalidating(res, msg) ==
    [res EXCEPT !.warnings = Append(@, msg), !.valid = FALSE]

AddWarning(res, msg) == [res EXCEPT !.warnings = Append(@, msg)]

\* the loop over required_fields
RECURSIVE CheckRequired(_, _, _)
CheckRequired(fields, data, res) ==
    IF fields = <<>> THEN res
    ELSE CheckRequired(Tail(fields), data,
                       IF Head(fields) \notin data.keys
                       THEN AddError(res, MissingField(Head(fields)))
                       ELSE res)

\* a loop over data['documents'] that stops at the first problem it finds
RECURSIVE CheckDocumentsFailFast(_, _, _)
CheckDocumentsFailFast(docs, files, res) ==
    IF docs = <<>> THEN res
    ELSE LET doc == Head(docs)
             exists == doc.file \in DOMAIN files
             is_pdf == PathSuffixLower(doc.file) = ".pdf"
             checked == [res EXCEPT !.file_check =
                            DictMerge(@, [f \in {doc.file} |->
                                             [exists |-> exists, is_pdf |-> is_pdf]])]
         IN  IF "file" \notin doc.keys THEN AddError(res, EntryMissingFile)
             ELSE IF ~exists THEN AddError(checked, FileNotFound(doc.file))
             ELSE IF ~is_pdf THEN AddWarning(checked, NotAPdf(doc.file))
             ELSE CheckDocumentsFailFast(Tail(docs), files, checked)

\* the loop over data['documents']
RECURSIVE CheckDocuments(_, _, _)
CheckDocuments(docs, files, res) ==
    IF docs = <<>> THEN res
    ELSE LET doc == Head(docs)
             exists == doc.file \in DOMAIN files
             is_pdf == PathSuffixLower(doc.file) = ".pdf"
             checked == [res EXCEPT !.file_check =
                            DictMerge(@, [f \in {doc.file} |->
                                             [exists |-> exists, is_pdf |-> is_pdf]])]
         IN  CheckDocuments(Tail(docs), files,
                            IF "file" \notin doc.keys THEN AddError(res, EntryMissingFile)
                            ELSE IF ~exists THEN AddError(checked, FileNotFound(doc.file))
                            ELSE IF ~is_pdf THEN AddWarning(checked, NotAPdf(doc.file))
                            ELSE checked)

\* folder_path.glob("*.pdf"), as names
GlobPdf(files) == {p \in DOMAIN files : Len(p) = 1 /\ p[1].suffix = ".pdf"}

\* documents.utils.validate_metadata_file on the descriptor of a folder
validate_metadata_file(folder) ==
    LET data == folder.desc
        required == CheckRequired(<<"collection_name", "documents">>, data, NoValidation)
        checked == CheckDocuments(data.documents, folder.files, required)
        orphaned_files == GlobPdf(folder.files) \ {data.documents[i].file : i \in DOMAIN data.documents}
    IN  IF data.kind # "map" THEN AddError(NoValidation, ErrorReading)
        ELSE IF "documents" \notin data.keys THEN required
        ELSE IF "documents" \in data.nulls THEN AddError(required, DataWithoutDocuments)
        ELSE IF \E i \in DOMAIN data.documents : "file" \notin data.documents[i].keys
             THEN AddError(checked, ErrorReading)
        ELSE IF orphaned_files # {} THEN AddWarning(checked, OrphanedPdfs(orphaned_files))
        ELSE checked

-----------------------------------------------------------------------------
(* The state machine *)

CollectionNames == {"X", "Y", "Q"}

Dirs(fsys) == {n \in DOMAIN fsys : fsys[n].isdir}

\* op, arg: the operation and its argument; raised: an exception escaped it;
\* ret: the boolean it returned; results: the map process_all_folders returned;
\* again: the operation before it was the same call and succeeded;
\* ext, exts: what the external collaborators did during the call (per folder
\* for process_all_folders);
\* n, hits, out: n_results, the search results and the list retrieve_data returned;
\* validation: the dictionary validate_metadata_file returned;
\* info, names: what get_collection_info and list_collections returned;
\* extracted: the value of RAG_EXTRACTED_METADATA the tool ran with
NoLast ==
    [op |-> "none", arg |-> "", raised |-> FALSE, ret |-> FALSE, results |-> EmptyMap,
     again |-> FALSE, ext |-> "ok", exts |-> EmptyMap, n |-> 0, hits |-> <<>>, out |-> <<>>, validation |-> NoValidation,
     info |-> NoInfo, names |-> {}, extracted |-> RAG_EXTRACTED_METADATA]

Returned(op, arg, ext, r) ==
    [NoLast EXCEPT !.op = op, !.arg = arg, !.raised = r.raised, !.ret = r.ret, !.ext = ext,
                   !.again = (last.op = op /\ last.arg = arg /\ last.ret /\ ~last.raised)]

\* the contents the folders of the model can have
ChoicesFa == {Folder(AbsentDesc, FilesV1), Folder(DescNoName, FilesV1),
              Folder(Desc1("X"), FilesV1), Folder(Desc1("X"), FilesV2),
              Folder(Desc1("X"), NoFiles), Folder(Desc2("X"), FilesAB)}
ChoicesFb == {Folder(NoneDesc, FilesV1), Folder(UnparsableDesc, FilesV1),
              Folder([Desc1("X") EXCEPT !.description = "another text"], FilesV1),
              [Folder(Desc1("Y"), FilesV2) EXCEPT
                  !.subdirs = [n \in {"sub"} |-> Folder(Desc1("N"), FilesV1)]]}
ChoicesFc == {Folder(UnparsableDesc, FilesV1), Folder(Desc1("Y"), FilesCorrupt),
              Folder(Desc1("Y"), FilesBlank), Folder(Desc1("Y"), FilesV1)}

\* two folders feeding two collections
ChoicesFx == {Folder(AbsentDesc, FilesV1), Folder(Desc1("X"), FilesV1),
              Folder(Desc2("X"), FilesAB)}
ChoicesFy == {Folder(Desc1("Y"), FilesV2)}

ChoicesIgnored == {Folder(Desc1("V"), FilesV2)}
ChoicesHidden == {Folder(Desc1("H"), FilesV1)}

FolderChoicesOf(n) ==
    CASE n = "fa" -> ChoicesFa
      [] n = "fb" -> ChoicesFb
      [] n = "fc" -> ChoicesFc
      [] n = "fx" -> ChoicesFx
      [] n = "fy" -> ChoicesFy
      [] n = "venv" -> ChoicesIgnored
      [] n = ".hid" -> ChoicesHidden
      [] OTHER -> {RootFile}

\* the file systems whose root has the given entries
FileSystems(entries) ==
    {f \in [entries -> UNION {FolderChoicesOf(n) : n \in entries}] :
        \A n \in entries : f[n] \in FolderChoicesOf(n)}

RootEntries == {"fa", "fb"}

Init ==
    /\ fs \in FileSystems(RootEntries)
    /\ store = EmptyStore
    /\ last = NoLast
    /\ edits = 0

\* an external call can fail only in a run that loads a configuration, since
\* no external call is made without one
MayFail(folder, ext) == ext # "ok" => load_metadata(folder).ok

\* a call of DocumentProcessor.process_folder on a directory of the root
ProcessFolder(n, ext) ==
    /\ n \in Dirs(fs)
    /\ MayFail(fs[n], ext)
    /\ LET r == process_folder(store, fs[n], FolderPath(n), ext)
       IN  /\ store' = r.store
           /\ last' = Returned("process_folder", n, ext, r)
    /\ UNCHANGED <<fs, edits>>

\* a call of DocumentProcessor.process_all_folders
ProcessAllFolders(order, exts) ==
    /\ order \in IterOrders(fs)
    /\ \A n \in DOMAIN exts : MayFail(fs[n], exts[n])
    /\ LET r == process_all_folders(order, fs, exts, store)
       IN  /\ store' = r.store
           /\ last' = [NoLast EXCEPT !.op = "process_all_folders", !.results = r.results,
                                      !.exts = exts,
                                      !.again = (last.op = "process_all_folders")]
    /\ UNCHANGED <<fs, edits>>

\* a call of documents.utils.rebuild_collection
RebuildCollection(name, order, ext) ==
    /\ order \in IterOrders(fs)
    /\ ext # "ok" => FindTargetFolder(order, fs, name).found
    /\ LET r == rebuild_collection(name, order, fs, ext, store)
       IN  /\ store' = r.store
           /\ last' = Returned("rebuild_collection", name, ext, r)
    /\ UNCHANGED <<fs, edits>>

\* a call of DocumentProcessor.delete_collection
DeleteCollection(name) ==
    /\ LET r == delete_collection(store, name)
       IN  /\ store' = r.store
           /\ last' = Returned("delete_collection", name, "ok", r)
    /\ UNCHANGED <<fs, edits>>

\* the folders whose content changes between calls
Editable == {"fa", "fx"}

\* the operator of the system changes a folder between two calls
EditFolder(n, folder) ==
    /\ edits < MaxEdits
    /\ n \in Editable
    /\ folder \in FolderChoicesOf(n)
    /\ folder # fs[n]
    /\ fs' = [fs EXCEPT ![n] = folder]
    /\ edits' = edits + 1
    /\ last' = [NoLast EXCEPT !.op = "edit", !.arg = n]
    /\ UNCHANGED store

Next ==
    \/ \E n \in DOMAIN fs, ext \in ExtOutcomes : ProcessFolder(n, ext)
    \/ \E order \in IterOrders(fs), exts \in [Eligible(fs) -> WriteOutcomes] :
          ProcessAllFolders(order, exts)
    \/ \E name \in CollectionNames, order \in IterOrders(fs), ext \in ExtOutcomes :
          RebuildCollection(name, order, ext)
    \/ \E name \in CollectionNames : DeleteCollection(name)
    \/ \E n \in DOMAIN fs : \E folder \in FolderChoicesOf(n) : EditFolder(n, folder)

Spec == Init /\ [][Next]_vars

\* three eligible folders, ingested by process_all_folders
InitAll ==
    /\ fs \in FileSystems({"fa", "fb", "fc"})
    /\ store = EmptyStore
    /\ last = NoLast
    /\ edits = 0

NextAll ==
    \/ \E order \in IterOrders(fs), exts \in [Eligible(fs) -> WriteOutcomes] :
          ProcessAllFolders(order, exts)
    \/ \E name \in CollectionNames : DeleteCollection(name)

SpecAll == InitAll /\ [][NextAll]_vars

\* a store filled by one ingestion of the root, then queried once
InitRetrieve ==
    /\ fs \in FileSystems(RootEntries)
    /\ \E order \in IterOrders(fs) :
          store = process_all_folders(order, fs, [n \in Eligible(fs) |-> "ok"], EmptyStore).store
    /\ last = NoLast
    /\ edits = 0

\* a call of DocumentProcessor.search_documents
SearchDocuments(name, n_results, ranking, ext) ==
    /\ ranking \in RankingsOf(store, name)
    /\ LET r == search_documents(store, name, n_results, ranking, ext)
       IN  /\ store' = r.store
           /\ last' = [NoLast EXCEPT !.op = "search_documents", !.arg = name, !.ext = ext,
                                      !.n = n_results, !.raised = r.raised, !.hits = r.ret]
    /\ UNCHANGED <<fs, edits>>

\* a call of the retrieve_data tool
RetrieveData(name, n_results, ranking, ext) ==
    /\ ranking \in RankingsOf(store, name)
    /\ LET r == search_in_collection(store, name, n_results, ranking, ext)
       IN  /\ store' = r.store
           /\ last' = [NoLast EXCEPT !.op = "retrieve_data", !.arg = name, !.ext = ext,
                                      !.n = n_results, !.raised = r.raised, !.hits = r.ret,
                                      !.out = IF r.raised THEN <<>> ELSE retrieve_data(r.ret)]
    /\ UNCHANGED <<fs, edits>>

\* a call of the retrieve_data tool in a process whose settings give
\* RAG_EXTRACTED_METADATA the value extracted_metadata
RetrieveDataWith(extracted_metadata, name, n_results, ranking, ext) ==
    /\ ranking \in RankingsOf(store, name)
    /\ LET r == search_in_collection(store, name, n_results, ranking, ext)
       IN  /\ store' = r.store
           /\ last' = [NoLast EXCEPT !.op = "retrieve_data", !.arg = name, !.ext = ext,
                                      !.n = n_results, !.raised = r.raised, !.hits = r.ret,
                                      !.extracted = extracted_metadata,
                                      !.out = IF r.raised THEN <<>>
                                              ELSE retrieve_data_for(extracted_metadata, r.ret)]
    /\ UNCHANGED <<fs, edits>>

\* a call of DocumentProcessor.get_collection_info
GetCollectionInfo(name, ext) ==
    /\ LET r == get_collection_info(store, name, ext)
       IN  /\ store' = r.store
           /\ last' = [NoLast EXCEPT !.op = "get_collection_info", !.arg = name, !.ext = ext,
                                      !.raised = r.raised, !.info = r.ret]
    /\ UNCHANGED <<fs, edits>>

\* a call of DocumentProcessor.list_collections
ListCollections ==
    /\ last' = [NoLast EXCEPT !.op = "list_collections", !.names = list_collections(store)]
    /\ UNCHANGED <<fs, store, edits>>

\* the read operations are tried once on every store
NextRetrieve ==
    \/ \E name \in CollectionNames, n_results \in NResults, ext \in StoreOutcomes :
          \E ranking \in RankingsOf(store, name) :
             last.op = "none" /\ SearchDocuments(name, n_results, ranking, ext)
    \/ \E name \in CollectionNames, n_results \in NResults, ext \in StoreOutcomes :
          \E ranking \in RankingsOf(store, name) :
             last.op = "none" /\ RetrieveData(name, n_results, ranking, ext)
    \/ \E name \in CollectionNames, ext \in StoreOutcomes :
          last.op = "none" /\ GetCollectionInfo(name, ext)
    \/ last.op = "none" /\ ListCollections

SpecRetrieve == InitRetrieve /\ [][NextRetrieve]_vars

\* the tool tried once on every store, with and without metadata in its items
NextProject ==
    \E extracted_metadata \in BOOLEAN, name \in CollectionNames, n_results \in NResults :
       \E ranking \in RankingsOf(store, name) :
          last.op = "none" /\ RetrieveDataWith(extracted_metadata, name, n_results, ranking, "ok")

SpecProject == InitRetrieve /\ [][NextProject]_vars

\* the document entries and folder contents descriptors are validated against
z_pdf == <<F("z", ".pdf")>>
ValidateEntries ==
    {DocEntry(a_pdf, DeclaredA), DocEntry(z_pdf, DeclaredA), DocEntry(c_txt, DeclaredA),
     [keys |-> {"metadata"}, file |-> <<>>, metadata |-> DeclaredA]}

SeqsUpTo(S, n) == UNION {[1..k -> S] : k \in 0..n}

ValidateDescs ==
    {AbsentDesc, UnparsableDesc, NoneDesc}
    \cup {[MapDesc(keys, "X", 2, 0, docs) EXCEPT !.nulls = nulls] :
             keys \in {AllKeys, AllKeys \ {"collection_name"}},
             docs \in SeqsUpTo(ValidateEntries, MaxDocs),
             nulls \in {{}}}
    \cup {[MapDesc(keys, "X", 2, 0, <<>>) EXCEPT !.nulls = {"documents"}] :
             keys \in {AllKeys, AllKeys \ {"collection_name"}}}
    \cup {MapDesc(keys \ {"documents"}, "X", 2, 0, <<>>) :
             keys \in {AllKeys, AllKeys \ {"collection_name"}}}

ValidateFiles ==
    {NoFiles,
     [p \in {a_pdf, c_txt} |-> Pdf(<<TextV1>>)],
     [p \in {a_pdf, b_pdf, c_txt} |-> Pdf(<<TextV1>>)]}

\* one folder with a descriptor to validate
InitValidate ==
    /\ \E desc \in ValidateDescs, files \in ValidateFiles :
          fs = [n \in {"fa"} |-> Folder(desc, files)]
    /\ store = EmptyStore
    /\ last = NoLast
    /\ edits = 0

\* a call of documents.utils.validate_metadata_file on a folder's descriptor
ValidateMetadataFile(n) ==
    /\ last.op = "none"
    /\ last' = [NoLast EXCEPT !.op = "validate_metadata_file", !.arg = n,
                               !.validation = validate_metadata_file(fs[n])]
    /\ UNCHANGED <<fs, store, edits>>

NextValidate == \E n \in DOMAIN fs : ValidateMetadataFile(n)

SpecValidate == InitValidate /\ [][NextValidate]_vars

\* the descriptors and folder contents the loader is tried on: every way of
\* failing softly, the optional keys present or omitted, chunk sizes and
\* overlaps in and out of order, documents declared or not
FilesNoPages == [p \in {a_pdf} |-> Pdf(<<>>)]

\* a document declared with a directory component, next to one of the same name
sub_a_pdf == <<F("sub", ""), F("a", ".pdf")>>
FilesSub == [p \in {a_pdf, sub_a_pdf} |->
                IF p = a_pdf THEN Pdf(<<TextV1>>) ELSE Pdf(<<TextB>>)]

LoadDescs ==
    {AbsentDesc, UnparsableDesc, NoneDesc, DescNoName}
    \cup {MapDesc(keys, "X", size, overlap, docs) :
             keys \in {AllKeys, AllKeys \ {"chunk_size", "chunk_overlap"},
                       AllKeys \ {"documents"}},
             size \in {1, 2}, overlap \in {0, 2, 3},
             docs \in {<<>>, <<DocEntry(a_pdf, DeclaredA)>>,
                       <<DocEntry(a_pdf, DeclaredA), DocEntry(b_pdf, DeclaredB)>>,
                       <<DocEntry(sub_a_pdf, DeclaredB)>>,
                       <<DocEntry(a_pdf, DeclaredA), DocEntry(sub_a_pdf, DeclaredB)>>}}

LoadFiles == {NoFiles, FilesV1, FilesCorrupt, FilesNoPages, FilesBlank, FilesAB, FilesSub}

\* one folder, loaded and ingested by process_folder
InitLoad ==
    /\ \E desc \in LoadDescs, files \in LoadFiles :
          fs = [n \in {"fa"} |-> Folder(desc, files)]
    /\ store = EmptyStore
    /\ last = NoLast
    /\ edits = 0

NextLoad ==
    \/ \E n \in DOMAIN fs, ext \in ExtOutcomes : ProcessFolder(n, ext)
    \/ \E name \in CollectionNames : DeleteCollection(name)

SpecLoad == InitLoad /\ [][NextLoad]_vars

\* every operation of the processor on two folders feeding two collections,
\* the reads asking for the nearest record
InitOps ==
    /\ fs \in FileSystems({"fx", "fy"})
    /\ store = EmptyStore
    /\ last = NoLast
    /\ edits = 0

NextOps ==
    \/ \E n \in DOMAIN fs, ext \in ExtOutcomes : ProcessFolder(n, ext)
    \/ \E order \in IterOrders(fs), exts \in [Eligible(fs) -> WriteOutcomes] :
          ProcessAllFolders(order, exts)
    \/ \E name \in CollectionNames, order \in IterOrders(fs), ext \in ExtOutcomes :
          RebuildCollection(name, order, ext)
    \/ \E name \in CollectionNames : DeleteCollection(name)
    \/ \E n \in DOMAIN fs : \E folder \in FolderChoicesOf(n) : EditFolder(n, folder)
    \/ \E name \in CollectionNames, ext \in StoreOutcomes :
          \E ranking \in RankingsOf(store, name) : SearchDocuments(name, 1, ranking, ext)
    \/ \E name \in CollectionNames, ext \in StoreOutcomes :
          \E ranking \in RankingsOf(store, name) : RetrieveData(name, 1, ranking, ext)
    \/ \E name \in CollectionNames, ext \in StoreOutcomes : GetCollectionInfo(name, ext)
    \/ ListCollections

SpecOps == InitOps /\ [][NextOps]_vars

\* a root that also holds an ignored directory, a hidden directory and a file
InitWalk ==
    /\ fs \in FileSystems({"fa", "fb", "venv", ".hid", "notes.txt"})
    /\ store = EmptyStore
    /\ last = NoLast
    /\ edits = 0

NextWalk ==
    \E order \in IterOrders(fs), exts \in [Eligible(fs) -> WriteOutcomes] :
       ProcessAllFolders(order, exts)

SpecWalk == InitWalk /\ [][NextWalk]_vars

-----------------------------------------------------------------------------
(* Properties of ingestion *)

\* the chunks process_folder derives from a folder of the root
FolderChunks(fsys, n) ==
    LET config == load_metadata(fsys[n])
    IN  split_documents(ExtractAll(fsys[n], FolderPath(n), config), config)

\* the ids held by every collection
RecordIds(st) == [c \in DOMAIN st |-> DOMAIN st[c].records]

\* the eligible folders whose descriptor names collection c
FoldersNaming(fsys, c) ==
    {n \in Eligible(fsys) : load_metadata(fsys[n]).ok
                            /\ load_metadata(fsys[n]).collection_name = c}

\* C1: running process_folder on a folder right after a successful run on the
\* same unchanged folder leaves every collection with the same set of record
\* ids (hence the same count); running process_all_folders right after a run
\* of it leaves the ids of every collection all of whose folders had been
\* recorded true unchanged.
C1_IdempotentReingestion ==
    [][/\ \A n \in DOMAIN fs, ext \in ExtOutcomes :
            (/\ last.op = "process_folder" /\ last.arg = n
             /\ last.ret /\ ~last.raised
             /\ ProcessFolder(n, ext))
            => RecordIds(store') = RecordIds(store)
       /\ \A order \in IterOrders(fs), exts \in [Eligible(fs) -> WriteOutcomes] :
            (last.op = "process_all_folders" /\ ProcessAllFolders(order, exts))
            => \A c \in DOMAIN store :
                  (\A n \in FoldersNaming(fs, c) : last.results[n])
                  => /\ c \in DOMAIN store'
                     /\ DOMAIN store'[c].records = DOMAIN store[c].records]_vars

\* a second successful run on the same folder has just finished and the
\* collection holds the folder's records
C1_Witness ==
    /\ last.op = "process_folder" /\ last.again /\ last.ret /\ ~last.raised
    /\ \E c \in DOMAIN store : Cardinality(DOMAIN store[c].records) >= 2

\* C2: after a successful process_folder every id derived from the folder
\* holds the text and the metadata of the chunk just written, also when the
\* id was in the collection before the call.
C2_OverwriteOnEqualId ==
    (last.op = "process_folder" /\ last.ret /\ ~last.raised)
    => LET n == last.arg
           config == load_metadata(fs[n])
           chunks == FolderChunks(fs, n)
       IN  \A id \in BatchIds(chunks, config) :
              store[config.collection_name].records[id]
                 = BatchRecord(chunks, config, FolderPath(n), id)

\* C3: in every stored record the keys source, chunk_index, collection and
\* folder_path are the source file name, the chunk's index, the collection
\* name and the path of a folder of the root.
C3_StructuralMetadata ==
    \A c \in DOMAIN store : \A id \in DOMAIN store[c].records :
        LET md == store[c].records[id].metadata
        IN  /\ md.source = id[2]
            /\ md.chunk_index = id[3]
            /\ md.collection = c
            /\ md.folder_path \in {FolderPath(n) : n \in DOMAIN fs}

\* the run of process_folder on folder n fails: no configuration, no
\* extracted document, nothing to write, or the write raises
FolderFails(fsys, n, ext) ==
    LET config == load_metadata(fsys[n])
    IN  \/ ~config.ok
        \/ ExtractAll(fsys[n], FolderPath(n), config) = <<>>
        \/ FolderChunks(fsys, n) = <<>>
        \/ ext # "ok"

C5_ResultMapDomain ==
    /\ last.op = "process_all_folders"
       => DOMAIN last.results =
             {n \in DOMAIN fs : fs[n].isdir /\ n \notin IGNORED_FOLDERS /\ ~StartsWithDot(n)}
    /\ DOMAIN store \cap {"V", "H", "N"} = {}

\* a run over a root with an ignored and a hidden directory returned a map
\* and wrote the collection of an eligible folder that has a nested directory
C5_Witness ==
    /\ last.op = "process_all_folders"
    /\ {"venv", ".hid", "notes.txt"} \subseteq DOMAIN fs
    /\ last.results = [n \in {"fa", "fb"} |-> TRUE]
    /\ DOMAIN fs["fb"].subdirs # {}
    /\ DOMAIN store = {"X", "Y"}

-----------------------------------------------------------------------------
(* Properties of rebuild_collection *)

\* the directories of the root whose descriptor names the collection
DirsNaming(fsys, name) ==
    {n \in Dirs(fsys) : /\ fsys[n].desc.kind = "map"
                        /\ "collection_name" \in fsys[n].desc.keys
                        /\ fsys[n].desc.collection_name = name}

\* whether the collection exists and, if so, its metadata and records
Contents(st, name) ==
    [exists |-> name \in DOMAIN st,
     collection |-> IF name \in DOMAIN st THEN st[name]
                    ELSE [metadata |-> [description |-> ""], records |-> NoRecords]]

\* C7: when the collection exists and exactly one folder's descriptor names
\* it, a rebuild during which no external call fails leaves the collection
\* with the contents that ingesting that folder into an empty store gives.
C7_RebuildConsistency ==
    [][\A name \in CollectionNames, order \in IterOrders(fs) :
          (/\ name \in DOMAIN store
           /\ Cardinality(DirsNaming(fs, name)) = 1
           /\ RebuildCollection(name, order, "ok"))
          => LET n == CHOOSE d \in DirsNaming(fs, name) : TRUE
             IN  Contents(store', name)
                    = Contents(process_folder(EmptyStore, fs[n], FolderPath(n), "ok").store,
                               name)]_vars

\* C9: rebuild_collection returns false and leaves no collection of that
\* name when no descriptor under the root names the collection.
C9_RebuildUnmappedFails ==
    (last.op = "rebuild_collection" /\ DirsNaming(fs, last.arg) = {})
    => /\ ~last.raised
       /\ ~last.ret
       /\ last.arg \notin DOMAIN store

\* C10: no exception escapes rebuild_collection.
C10_RebuildNeverRaises ==
    last.op = "rebuild_collection" => ~last.raised

-----------------------------------------------------------------------------
(* Properties of retrieval *)

\* C6: retrieve_data returns at most n_results items, one for each search
\* result whose distance is greater than RAG_TRESHOLD_DISTANCES and none for
\* the others, each carrying the text of such a result.
C6_ThresholdFiltering ==
    last.op = "retrieve_data"
    => LET above == {i \in DOMAIN last.hits : last.hits[i].distance > RAG_TRESHOLD_DISTANCES}
       IN  /\ Len(last.hits) <= last.n
           /\ Len(last.out) <= last.n
           /\ Len(last.out) = Cardinality(above)
           /\ \A j \in DOMAIN last.out :
                 \E i \in above : last.out[j].content = last.hits[i].document

\* a retrieval got results below, at and above the threshold and kept one
C6_Witness ==
    /\ last.op = "retrieve_data"
    /\ Len(last.hits) = 3
    /\ {last.hits[i].distance : i \in DOMAIN last.hits} = Distances
    /\ Len(last.out) = 1

-----------------------------------------------------------------------------
(* Properties of validation *)

-----------------------------------------------------------------------------
(* Properties of the read operations *)

\* C11: search_documents on a collection name that is not in the store
\* returns the empty list and no exception escapes it, whatever the store holds.
C11_SearchMissingCollection ==
    (last.op = "search_documents" /\ last.arg \notin DOMAIN store)
    => (last.hits = <<>> /\ ~last.raised)

\* a missing collection was searched in a store that holds records
C11_Witness ==
    /\ last.op = "search_documents" /\ last.arg \notin DOMAIN store
    /\ last.ext = "ok" /\ last.n > 0
    /\ \E c \in DOMAIN store : DOMAIN store[c].records # {}

\* C12: what search_documents returns for a collection that does not exist
\* differs from everything it can return for a collection that exists (one
\* without a hit, or one the store fails to query).
C12_NotFoundDistinguishable ==
    (last.op = "search_documents" /\ last.arg \notin DOMAIN store)
    => \A c \in DOMAIN store, n \in NResults, ext \in StoreOutcomes :
          \A ranking \in RankingsOf(store, c) :
             LET r == search_documents(store, c, n, ranking, ext)
             IN  <<last.raised, last.hits>> # <<r.raised, r.ret>>

\* C13: get_collection_info of an existing collection returns its name, its
\* record count and its collection-level metadata, and what it returns for a
\* collection that does not exist differs from what it returns when the
\* store cannot be reached.
C13_InfoDistinctFailures ==
    /\ (last.op = "get_collection_info" /\ last.ext = "ok" /\ last.arg \in DOMAIN store)
       => last.info = [name |-> last.arg,
                       count |-> Cardinality(DOMAIN store[last.arg].records),
                       metadata |-> store[last.arg].metadata]
    /\ (last.op = "get_collection_info" /\ last.ext = "ok" /\ last.arg \notin DOMAIN store)
       => \A c \in CollectionNames :
             <<last.raised, last.info>>
                # <<get_collection_info(store, c, "store_fails").raised,
                    get_collection_info(store, c, "store_fails").ret>>

\* C20: a call of search_documents or of retrieve_data (through
\* search_in_collection) leaves the store as it was: the same collections
\* with the same metadata and the same records.
C20_RetrievalReadOnly ==
    [][last'.op \in {"search_documents", "retrieve_data"} => store' = store]_vars

\* a collection that does not exist was queried while another one held records
C20_Witness ==
    /\ last.op = "retrieve_data" /\ last.arg \notin DOMAIN store
    /\ \E c \in DOMAIN store : Cardinality(DOMAIN store[c].records) >= 2

-----------------------------------------------------------------------------
(* Properties of the collection manager and of the loader *)

\* C14: _create_or_get_collection, as called by process_folder, creates a
\* missing collection with metadata description = config.description and no
\* other collection changes; when the collection exists its metadata and
\* every record it holds stay as they were, also when the description of the
\* config differs; calling it again changes nothing.
C14_CreateOrGetIdempotent ==
    [][\A n \in Dirs(fs) :
          LET config == load_metadata(fs[n])
              name == config.collection_name
              got == create_or_get_collection(store, config, "ok")
              ext == last'.ext
          IN  (config.ok /\ last'.op = "process_folder" /\ last'.arg = n)
              => /\ create_or_get_collection(got.store, config, "ok").store = got.store
                 /\ DOMAIN got.store = (DOMAIN store) \cup {name}
                 /\ \A c \in (DOMAIN store) \ {name} : c \in DOMAIN store' /\ store'[c] = store[c]
                 /\ IF name \in DOMAIN store
                    THEN /\ got.store = store
                         /\ name \in DOMAIN store'
                         /\ store'[name].metadata = store[name].metadata
                         /\ \A id \in DOMAIN store[name].records :
                               /\ id \in DOMAIN store'[name].records
                               /\ store'[name].records[id] = store[name].records[id]
                    ELSE /\ got.store[name] = [metadata |-> [description |-> config.description],
                                               records |-> NoRecords]
                         /\ \/ ext = "create_fails" /\ store' = store
                            \/ /\ name \in DOMAIN store'
                               /\ store'[name].metadata = [description |-> config.description]]_vars

\* process_folder succeeded on a collection that was created from a
\* descriptor with another description and already held records
C14_Witness ==
    /\ last.op = "process_folder" /\ last.ret /\ ~last.raised
    /\ LET config == load_metadata(fs[last.arg])
       IN  /\ config.ok
           /\ config.collection_name \in DOMAIN store
           /\ store[config.collection_name].metadata.description # config.description
           /\ DOMAIN store[config.collection_name].records # {}

\* the descriptors _load_metadata gives no configuration for: no file, a file
\* the parser rejects, an empty document, a mapping without collection_name
SoftFailing(data) ==
    \/ data.kind \in {"absent", "unparsable", "none"}
    \/ data.kind = "map" /\ "collection_name" \notin data.keys

\* C15: for a folder whose descriptor is absent, unparsable, empty or without
\* collection_name, _load_metadata gives no configuration and process_folder
\* returns false, no exception escaping.
C15_SoftDescriptorFailure ==
    (last.op = "process_folder" /\ SoftFailing(fs[last.arg].desc))
    => /\ ~load_metadata(fs[last.arg]).ok
       /\ ~last.raised
       /\ ~last.ret

\* process_folder returned false for a folder that holds a readable PDF and
\* whose descriptor declares it but has no collection_name
C15_Witness ==
    /\ last.op = "process_folder" /\ ~last.ret /\ ~last.raised
    /\ fs[last.arg].desc = DescNoName
    /\ fs[last.arg].files = FilesV1

\* C16: a descriptor that has collection_name but no documents key, for which
\* validate_metadata_file reports the missing field, gets no configuration
\* from _load_metadata.
C16_LoaderRequiresDocuments ==
    LET data == fs[last.arg].desc
    IN  (/\ last.op = "process_folder"
         /\ data.kind = "map"
         /\ "collection_name" \in data.keys
         /\ "documents" \notin data.keys)
        => /\ MissingField("documents") \in Range(validate_metadata_file(fs[last.arg]).errors)
           /\ ~load_metadata(fs[last.arg]).ok

\* C17: every configuration _load_metadata produces has chunk_size > 0 and
\* 0 <= chunk_overlap < chunk_size, with 1000 and 200 for the keys the
\* descriptor omits, and no folder whose descriptor declares other values is
\* chunked and written.
C17_ChunkBounds ==
    LET data == fs[last.arg].desc
        config == load_metadata(fs[last.arg])
    IN  (last.op = "process_folder" /\ config.ok)
        => /\ config.chunk_size > 0
           /\ 0 <= config.chunk_overlap
           /\ config.chunk_overlap < config.chunk_size
           /\ "chunk_size" \notin data.keys => config.chunk_size = 1000
           /\ "chunk_overlap" \notin data.keys => config.chunk_overlap = 200
           /\ ("chunk_size" \in data.keys /\ "chunk_overlap" \in data.keys
               /\ ~(data.chunk_size > 0 /\ 0 <= data.chunk_overlap
                    /\ data.chunk_overlap < data.chunk_size))
              => ~last.ret

\* C18: for a folder with a valid descriptor from whose declared documents
\* nothing is extracted (no document declared, files missing, unreadable or
\* without pages), process_folder returns false while the store accepts the
\* collection, and no collection gains or loses a record.
C18_NoDocumentsFails ==
    [][\A n \in Dirs(fs), ext \in WriteOutcomes :
          LET config == load_metadata(fs[n])
          IN  (/\ config.ok
               /\ ExtractAll(fs[n], FolderPath(n), config) = <<>>
               /\ ProcessFolder(n, ext))
              => /\ ~last'.ret
                 /\ ~last'.raised
                 /\ \A c \in DOMAIN store : c \in DOMAIN store' /\ store'[c] = store[c]
                 /\ \A c \in (DOMAIN store') \ (DOMAIN store) :
                       store'[c].records = NoRecords]_vars

\* process_folder returned false for a folder whose only declared document
\* cannot be read
C18_Witness ==
    /\ last.op = "process_folder" /\ ~last.ret /\ ~last.raised
    /\ load_metadata(fs[last.arg]).ok
    /\ Len(load_metadata(fs[last.arg]).documents) = 1
    /\ fs[last.arg].files = FilesCorrupt
    /\ "X" \in DOMAIN store

-----------------------------------------------------------------------------
(* Properties of the store over sequences of operations *)

\* C19: whenever a step removes a collection or a record of a collection,
\* the step is a delete_collection or a rebuild_collection of that
\* collection; no other operation (process_folder, process_all_folders,
\* search_documents, retrieve_data, get_collection_info, list_collections)
\* removes anything.
C19_RecordDurability ==
    [][\A c \in DOMAIN store :
          (\/ c \notin DOMAIN store'
           \/ \E id \in DOMAIN store[c].records : id \notin DOMAIN store'[c].records)
          => (last'.op \in {"delete_collection", "rebuild_collection"} /\ last'.arg = c)]_vars

\* a collection was deleted while another one kept its records
C19_Witness ==
    /\ last.op = "delete_collection" /\ last.ret
    /\ last.arg \notin DOMAIN store
    /\ \E c \in DOMAIN store : DOMAIN store[c].records # {}

-----------------------------------------------------------------------------
(* Properties of the order of ingestion *)

\* C21: the result map and the store a run of process_all_folders leaves are
\* the same for every order in which the folders of the root are ingested.
C21_OrderIndependence ==
    [][\A order \in IterOrders(fs), exts \in [Eligible(fs) -> WriteOutcomes] :
          ProcessAllFolders(order, exts)
          => \A other \in IterOrders(fs) :
                LET r == process_all_folders(other, fs, exts, store)
                IN  r.results = last'.results /\ r.store = store']_vars

-----------------------------------------------------------------------------
(* Properties of the order and the shape of the results *)

\* C22: the list search_documents returns holds the entries of the store's
\* ranking in the store's order (its first n_results entries, by ascending
\* distance), and the list retrieve_data returns is a subsequence of it in
\* the same order.
C22_RankingPreserved ==
    [][/\ last'.op \in {"search_documents", "retrieve_data"}
          => \A ranking \in RankingsOf(store, last'.arg) :
                (\/ SearchDocuments(last'.arg, last'.n, ranking, last'.ext)
                 \/ RetrieveData(last'.arg, last'.n, ranking, last'.ext))
                => /\ Len(last'.hits) <= Len(ranking)
                   /\ \A i \in DOMAIN last'.hits :
                         /\ last'.hits[i].distance = ranking[i].distance
                         /\ last'.hits[i].document
                               = store[last'.arg].records[ranking[i].id].document
                   /\ \A i, j \in DOMAIN last'.hits :
                         i < j => last'.hits[i].distance <= last'.hits[j].distance
       /\ last'.op = "retrieve_data"
          => \E f \in [DOMAIN last'.out -> DOMAIN last'.hits] :
                /\ \A i, j \in DOMAIN last'.out : i < j => f[i] < f[j]
                /\ \A j \in DOMAIN last'.out :
                      last'.out[j].content = last'.hits[f[j]].document]_vars

\* three results at different distances were found and two of them returned
C22_Witness ==
    /\ last.op = "retrieve_data"
    /\ Len(last.hits) = 3 /\ Len(last.out) = 2
    /\ last.hits[1].distance < last.hits[3].distance
    /\ last.hits[1].document # last.hits[3].document

\* C23: every item retrieve_data returns has the text of its record as
\* content; with RAG_EXTRACTED_METADATA true it also has a metadata map whose
\* keys are the keys of the record's metadata that are in
\* RAG_EXTRACTED_METADATA_KEYS, with the record's values; with it false the
\* item has no metadata.
C23_MetadataProjection ==
    last.op = "retrieve_data"
    => LET Keep(result) == result.distance > RAG_TRESHOLD_DISTANCES
           kept == SelectSeq(last.hits, Keep)
       IN  /\ Len(last.out) = Len(kept)
           /\ \A j \in DOMAIN last.out :
                 /\ last.out[j].content = kept[j].document
                 /\ IF last.extracted
                    THEN /\ DOMAIN last.out[j] = {"metadata", "content"}
                         /\ DOMAIN last.out[j].metadata
                               = (DOMAIN kept[j].metadata) \cap RAG_EXTRACTED_METADATA_KEYS
                         /\ \A k \in DOMAIN last.out[j].metadata :
                               last.out[j].metadata[k] = kept[j].metadata[k]
                    ELSE DOMAIN last.out[j] = {"content"}

\* the tool ran with RAG_EXTRACTED_METADATA true and returned an item whose
\* metadata keeps source and drops the other keys of the record
C23_Witness ==
    /\ last.op = "retrieve_data" /\ last.extracted
    /\ Len(last.out) >= 1
    /\ DOMAIN last.out[1].metadata = {"source"}
    /\ \E i \in DOMAIN last.hits : "author" \in DOMAIN last.hits[i].metadata

-----------------------------------------------------------------------------
(* Properties of the records one write produces *)

\* C24: after a successful process_folder, for every entry of the descriptor
\* and every chunk extracted from the entry's file, the record of the chunk
\* has every metadata key the entry declares, with the declared value unless
\* the extraction gave the chunk the same key.
C24_DeclaredMetadataReachesChunks ==
    (last.op = "process_folder" /\ last.ret /\ ~last.raised)
    => LET n == last.arg
           config == load_metadata(fs[n])
           chunks == FolderChunks(fs, n)
       IN  \A k \in DOMAIN config.documents, j \in DOMAIN chunks :
              chunks[j].metadata.source = PathJoin(FolderPath(n), config.documents[k].file)
              => LET rec == store[config.collection_name].records[ChunkId(chunks[j], j - 1, config)]
                 IN  \A key \in DOMAIN config.documents[k].metadata :
                        /\ key \in DOMAIN rec.metadata
                        /\ key \notin DOMAIN chunks[j].metadata
                           => rec.metadata[key] = config.documents[k].metadata[key]

\* C25: a successful process_folder into a collection it creates writes one
\* record per chunk of the folder; the record of the chunk at position k
\* (counted from 0 over all declared documents, in descriptor order) has the
\* id of its collection, its file name and k, has chunk_index = k and holds
\* the chunk's text; hence the ids of one write are pairwise distinct and the
\* index of a file's chunks depends on the chunks of the documents before it.
C25_IdAssignment ==
    [][\A n \in Dirs(fs), ext \in ExtOutcomes :
          LET config == load_metadata(fs[n])
              name == config.collection_name
              chunks == FolderChunks(fs, n)
          IN  (/\ config.ok
               /\ name \notin DOMAIN store
               /\ ProcessFolder(n, ext)
               /\ last'.ret)
              => /\ Cardinality(DOMAIN store'[name].records) = Len(chunks)
                 /\ \A k \in DOMAIN chunks :
                       LET id == <<name, SourceFile(chunks[k]), k - 1>>
                       IN  /\ id \in DOMAIN store'[name].records
                           /\ store'[name].records[id].metadata.chunk_index = k - 1
                           /\ store'[name].records[id].document = chunks[k].page_content]_vars

\* the chunk of the second declared document was numbered after the chunks
\* of the first
C25_Witness ==
    /\ last.op = "process_folder" /\ last.ret
    /\ "X" \in DOMAIN store
    /\ \E i \in 2..3 : <<"X", b_pdf, i>> \in DOMAIN store["X"].records
    /\ <<"X", b_pdf, 0>> \notin DOMAIN store["X"].records
    /\ <<"X", a_pdf, 0>> \in DOMAIN store["X"].records

-----------------------------------------------------------------------------
(* Properties of failing and repeated runs *)

\* C26: a process_folder that returns false leaves the store as it was, and
\* so does a process_all_folders that records false for every folder: no
\* collection is created and no record is added.
C26_NoSideEffectOnFailure ==
    [][/\ \A n \in Dirs(fs), ext \in ExtOutcomes :
            (ProcessFolder(n, ext) /\ ~last'.ret /\ ~last'.raised) => store' = store
       /\ \A order \in IterOrders(fs), exts \in [Eligible(fs) -> WriteOutcomes] :
            (ProcessAllFolders(order, exts) /\ \A n \in Eligible(fs) : ~last'.results[n])
            => store' = store]_vars

\* C27: after a rebuild_collection that returned false or raised, the named
\* collection is in the store exactly if it was before the call, with the
\* records it had.
C27_FailedRebuildNonDestructive ==
    [][\A name \in CollectionNames :
          (/\ last'.op = "rebuild_collection" /\ last'.arg = name
           /\ (last'.raised \/ ~last'.ret))
          => /\ (name \in DOMAIN store) = (name \in DOMAIN store')
             /\ name \in DOMAIN store => store'[name] = store[name]]_vars

\* C27, amended: after a rebuild_collection that returned false or raised,
\* every other collection is as it was before the call, no collection but
\* the named one can be new, and the named collection, deleted before the
\* folder is looked for, is absent or holds no record.
C27_FailedRebuildDeletes ==
    [][\A name \in CollectionNames :
          (/\ last'.op = "rebuild_collection" /\ last'.arg = name
           /\ (last'.raised \/ ~last'.ret))
          => /\ \A c \in (DOMAIN store) \ {name} : c \in DOMAIN store' /\ store'[c] = store[c]
             /\ DOMAIN store' \subseteq (DOMAIN store) \cup {name}
             /\ name \in DOMAIN store' => store'[name].records = NoRecords]_vars

\* a rebuild failed, its collection is gone and another collection kept its
\* records
C27_Witness ==
    /\ last.op = "rebuild_collection" /\ ~last.ret
    /\ last.arg \notin DOMAIN store
    /\ \E c \in DOMAIN store : DOMAIN store[c].records # {}

\* C28: after a successful process_folder the records of the collection that
\* come from the folder are exactly the records derived from the folder's
\* current descriptor and files: no record of an earlier run of the folder
\* is left for a document or a chunk index that no longer exists.
C28_NoStaleRecords ==
    (last.op = "process_folder" /\ last.ret /\ ~last.raised)
    => LET n == last.arg
           config == load_metadata(fs[n])
           records == store[config.collection_name].records
       IN  {id \in DOMAIN records : records[id].metadata.folder_path = FolderPath(n)}
              = BatchIds(FolderChunks(fs, n), config)

\* C28, amended: after a successful process_folder the ids of the folder's
\* collection are the ids it held before the run together with the ids
\* derived from the folder's current descriptor and files; every other
\* collection keeps its ids.
C28_ReingestionKeepsEarlierRecords ==
    [][(last'.op = "process_folder" /\ last'.ret /\ ~last'.raised)
       => LET n == last'.arg
              config == load_metadata(fs[n])
              name == config.collection_name
              before == IF name \in DOMAIN store THEN DOMAIN store[name].records ELSE {}
          IN  /\ name \in DOMAIN store'
              /\ DOMAIN store'[name].records
                    = before \cup BatchIds(FolderChunks(fs, n), config)
              /\ \A c \in (DOMAIN store) \ {name} :
                    c \in DOMAIN store' /\ DOMAIN store'[c].records = DOMAIN store[c].records]_vars

\* a successful run left in the collection a record of an earlier run that
\* the folder no longer gives
C28_Witness ==
    /\ last.op = "process_folder" /\ last.ret /\ ~last.raised
    /\ LET n == last.arg
           config == load_metadata(fs[n])
       IN  \E id \in DOMAIN store[config.collection_name].records :
              /\ id \notin BatchIds(FolderChunks(fs, n), config)
              /\ store[config.collection_name].records[id].metadata.folder_path = FolderPath(n)

\* C29: in every result of validate_metadata_file valid is true exactly when
\* the errors list is empty, so warnings (a listed file that is not a PDF,
\* PDF files the descriptor does not list) never make valid false; and the
\* function returns a result instead of raising whatever the descriptor
\* holds: an unreadable, unparsable or empty descriptor and an entry without
\* 'file' give a result with the "Error reading metadata file" entry,
\* documents: null gives one with "Data without documents".
C29_ValidIffNoErrors ==
    LET data == fs[last.arg].desc
        res == last.validation
    IN  last.op = "validate_metadata_file"
        => /\ res.valid <=> res.errors = <<>>
           /\ ~last.raised
           /\ data.kind # "map" => res.errors = <<ErrorReading>>
           /\ (data.kind = "map" /\ "documents" \in data.keys \cap data.nulls)
              => DataWithoutDocuments \in Range(res.errors)
           /\ (/\ data.kind = "map" /\ "documents" \in data.keys \ data.nulls
               /\ \E i \in DOMAIN data.documents : "file" \notin data.documents[i].keys)
              => {EntryMissingFile, ErrorReading} \subseteq Range(res.errors)

\* a descriptor was validated that draws both warnings and no error, and
\* the result is valid
C29_Witness ==
    /\ last.op = "validate_metadata_file"
    /\ last.validation.valid
    /\ last.validation.errors = <<>>
    /\ NotAPdf(c_txt) \in Range(last.validation.warnings)
    /\ \E files \in SUBSET DOMAIN fs[last.arg].files :
          files # {} /\ OrphanedPdfs(files) \in Range(last.validation.warnings)
====
